---------------------------- MODULE Spec2Model ----------------------------
(***************************************************************************)
(* A model of the two SimpleWebServer implementations of this repository:  *)
(* src/server.py (the minimal server) and the later, extended variant      *)
(* (directory listing, percent-decoding, download headers) kept in the     *)
(* second source file.  impl selects which of the two the process runs.    *)
(*                                                                         *)
(* Text is modelled character by character.  A Python str is a sequence    *)
(* of code points and a Python bytes object is a sequence of bytes; both   *)
(* are tuples of one-element TLA+ strings.  An ASCII character and its     *)
(* byte share a name ("a"); a non-ASCII code point is "Uxxxx" and a        *)
(* non-ASCII byte is "xHH".                                                *)
(***************************************************************************)
EXTENDS Integers, Sequences, FiniteSets, TLC

(***************************************************************************)
(* The bound of the model.                                                 *)
(***************************************************************************)
\* connections the accept loop takes during one run
MaxConns == 1

(***************************************************************************)
(* str and bytes.                                                          *)
(***************************************************************************)
\* the UTF-8 encoding of the non-ASCII code points the model uses
Utf8Table ==
    "U5217" :> <<"xE5", "x88", "x97">>
    @@ "U53D6" :> <<"xE5", "x8F", "x96">>
    @@ "U5931" :> <<"xE5", "xA4", "xB1">>
    @@ "U5F55" :> <<"xE5", "xBD", "x95">>
    @@ "U76EE" :> <<"xE7", "x9B", "xAE">>
    @@ "U8868" :> <<"xE8", "xA1", "xA8">>
    @@ "U8BFB" :> <<"xE8", "xAF", "xBB">>
    @@ "U8D25" :> <<"xE8", "xB4", "xA5">>
    @@ "UFF1A" :> <<"xEF", "xBC", "x9A">>

\* bytes that can only continue a multi-byte UTF-8 sequence, or never occur
ContBytes == UNION {{Utf8Table[c][2], Utf8Table[c][3]} : c \in DOMAIN Utf8Table}
LeadBytes == {Utf8Table[c][1] : c \in DOMAIN Utf8Table}
InvalidByte == "xFF"
NonAsciiBytes == ContBytes \cup LeadBytes \cup {InvalidByte}

\* one code point as UTF-8 bytes
Utf8(c) == IF c \in DOMAIN Utf8Table THEN Utf8Table[c] ELSE <<c>>

\* str.encode('utf-8'): the bytes of every code point, in order (the
\* sequence is halved at each step to keep the evaluation shallow)
RECURSIVE Encode(_)
Encode(s) ==
    IF s = <<>> THEN <<>>
    ELSE IF Len(s) = 1 THEN Utf8(s[1])
    ELSE Encode(SubSeq(s, 1, Len(s) \div 2))
         \o Encode(SubSeq(s, (Len(s) \div 2) + 1, Len(s)))

\* the code point a three-byte sequence encodes, "" when it encodes none
CodePoint(b3) ==
    IF \E c \in DOMAIN Utf8Table : Utf8Table[c] = b3
    THEN CHOOSE c \in DOMAIN Utf8Table : Utf8Table[c] = b3
    ELSE ""

\* bytes.decode('utf-8', errors): errors = "strict" fails on an invalid
\* sequence (the result is the failure value DecodeError), errors = "replace"
\* puts U+FFFD in its place
DecodeError == <<"UnicodeDecodeError">>
Replacement == "UFFFD"
RECURSIVE DecodeFrom(_, _, _)
DecodeFrom(b, errors, acc) ==
    IF b = <<>> THEN acc
    ELSE IF Head(b) \notin NonAsciiBytes
         THEN DecodeFrom(Tail(b), errors, Append(acc, Head(b)))
    ELSE IF Len(b) >= 3 /\ CodePoint(SubSeq(b, 1, 3)) # ""
         THEN DecodeFrom(SubSeq(b, 4, Len(b)), errors,
                         Append(acc, CodePoint(SubSeq(b, 1, 3))))
    ELSE IF errors = "replace"
         THEN DecodeFrom(Tail(b), errors, Append(acc, Replacement))
    ELSE DecodeError

Decode(b, errors) == DecodeFrom(b, errors, <<>>)

\* str(n) for a non-negative integer
Digits == <<"0", "1", "2", "3", "4", "5", "6", "7", "8", "9">>
RECURSIVE IntToStr(_)
IntToStr(n) ==
    IF n < 10 THEN <<Digits[n + 1]>>
    ELSE Append(IntToStr(n \div 10), Digits[(n % 10) + 1])

\* s.startswith(p)
StartsWith(s, p) == Len(s) >= Len(p) /\ SubSeq(s, 1, Len(p)) = p

\* s.endswith(p)
EndsWith(s, p) ==
    Len(s) >= Len(p) /\ SubSeq(s, Len(s) - Len(p) + 1, Len(s)) = p

\* s.lstrip(ch)
RECURSIVE LStrip(_, _)
LStrip(s, ch) ==
    IF s # <<>> /\ Head(s) = ch THEN LStrip(Tail(s), ch) ELSE s

\* s.split(sep) for a one-character separator: the fields, empty ones kept
RECURSIVE SplitOn(_, _, _, _)
SplitOn(s, sep, cur, acc) ==
    IF s = <<>> THEN Append(acc, cur)
    ELSE IF Head(s) = sep THEN SplitOn(Tail(s), sep, <<>>, Append(acc, cur))
    ELSE SplitOn(Tail(s), sep, Append(cur, Head(s)), acc)

Split(s, sep) == SplitOn(s, sep, <<>>, <<>>)

\* sep.join(parts)
RECURSIVE Join(_, _)
Join(parts, sep) ==
    IF parts = <<>> THEN <<>>
    ELSE IF Len(parts) = 1 THEN parts[1]
    ELSE parts[1] \o sep \o Join(Tail(parts), sep)

\* s.split('\r\n')[0]: the text before the first CRLF, all of s without one
RECURSIVE FirstLine(_)
FirstLine(s) ==
    IF s = <<>> THEN <<>>
    ELSE IF Len(s) >= 2 /\ s[1] = "\r" /\ s[2] = "\n" THEN <<>>
    ELSE <<Head(s)>> \o FirstLine(Tail(s))

\* s.split(): the maximal runs of non-whitespace characters
Whitespace == {" ", "\t", "\r", "\n"}
RECURSIVE Tokens(_, _, _)
Tokens(s, cur, acc) ==
    IF s = <<>> THEN (IF cur = <<>> THEN acc ELSE Append(acc, cur))
    ELSE IF Head(s) \in Whitespace
         THEN Tokens(Tail(s), <<>>, IF cur = <<>> THEN acc ELSE Append(acc, cur))
    ELSE Tokens(Tail(s), Append(cur, Head(s)), acc)

SplitWords(s) == Tokens(s, <<>>, <<>>)

\* s.replace(a, b) for one-character a and b
Replace(s, a, b) == [i \in 1..Len(s) |-> IF s[i] = a THEN b ELSE s[i]]

(***************************************************************************)
(* urllib.parse.unquote: every %XX whose XX are two hex digits becomes the *)
(* byte XX, and the bytes are decoded as UTF-8 with errors='replace'.      *)
(* PctTable lists the escapes of the model's alphabet.                     *)
(***************************************************************************)
PctTable ==
    <<"2", "e">> :> "." @@ <<"2", "E">> :> "." @@
    <<"2", "f">> :> "/" @@ <<"2", "F">> :> "/" @@
    <<"E", "7">> :> "xE7" @@ <<"9", "B">> :> "x9B" @@ <<"A", "E">> :> "xAE"

RECURSIVE UnquoteToBytes(_)
UnquoteToBytes(s) ==
    IF s = <<>> THEN <<>>
    ELSE IF Head(s) = "%" /\ Len(s) >= 3 /\ <<s[2], s[3]>> \in DOMAIN PctTable
         THEN <<PctTable[<<s[2], s[3]>>]>> \o UnquoteToBytes(SubSeq(s, 4, Len(s)))
    ELSE Utf8(Head(s)) \o UnquoteToBytes(Tail(s))

Unquote(s) == Decode(UnquoteToBytes(s), "replace")

(***************************************************************************)
(* os.path on a POSIX host.                                                *)
(***************************************************************************)
Sep == "/"

\* os.path.join(a, b)
PathJoin(a, b) ==
    IF b # <<>> /\ Head(b) = Sep THEN b
    ELSE IF a = <<>> \/ a[Len(a)] = Sep THEN a \o b
    ELSE a \o <<Sep>> \o b

\* the component stack of normpath for an absolute path: "" and "." are
\* dropped and ".." pops a component (and is dropped at the root)
RECURSIVE NormComps(_, _)
NormComps(comps, acc) ==
    IF comps = <<>> THEN acc
    ELSE IF Head(comps) = <<>> \/ Head(comps) = <<".">>
         THEN NormComps(Tail(comps), acc)
    ELSE IF Head(comps) = <<".", ".">>
         THEN NormComps(Tail(comps),
                        IF acc = <<>> THEN acc ELSE SubSeq(acc, 1, Len(acc) - 1))
    ELSE NormComps(Tail(comps), Append(acc, Head(comps)))

\* os.path.abspath(p) of a path that is already absolute: normpath(p)
Abspath(p) == <<Sep>> \o Join(NormComps(Split(p, Sep), <<>>), <<Sep>>)

\* os.path.basename(p)
Basename(p) == LET parts == Split(p, Sep) IN parts[Len(parts)]

(***************************************************************************)
(* The filesystem: a function from the absolute path of each existing node *)
(* to its kind, its read permission and, for a file, its content.          *)
(***************************************************************************)
\* self.root_dir, already absolute
root_dir == <<"/", "r">>

File(readable, content) ==
    [kind |-> "file", readable |-> readable, content |-> content]
Dir(readable) == [kind |-> "dir", readable |-> readable, content |-> <<>>]

\* a file name holding a byte that is not UTF-8: os.listdir returns it with
\* a lone surrogate, which str.encode('utf-8') refuses
Surrogate == "UDC80"

InitialFs ==
    <<Sep>> :> Dir(TRUE)
    @@ <<"/", "s">> :> File(TRUE, <<"T">>)
    @@ <<"/", "r", "e">> :> Dir(TRUE)
    @@ <<"/", "r", "e", "/", "s">> :> File(TRUE, <<"S">>)
    @@ root_dir :> Dir(TRUE)
    @@ <<"/", "r", "/", "i", "n", "d", "e", "x", ".", "h", "t", "m", "l">> :> File(TRUE, <<"h", "i">>)
    @@ <<"/", "r", "/", "u">> :> File(FALSE, <<"U">>)
    @@ <<"/", "r", "/", "z", ".", "z", "i", "p">> :> File(TRUE, <<"Z">>)
    @@ <<"/", "r", "/", "d">> :> Dir(TRUE)
    @@ <<"/", "r", "/", "d", "/", "a", ".", "t", "x", "t">> :> File(TRUE, <<"A">> \o <<"xE7", "x9B", "xAE">>)
    @@ <<"/", "r", "/", "d", "/", "b", "\\", "c">> :> File(TRUE, <<"B">>)
    @@ <<"/", "r", "/", "n">> :> Dir(TRUE)
    @@ (<<"/", "r", "/", "n", "/">> \o <<Surrogate>>) :> File(TRUE, <<"N">>)

\* the failure value of a filesystem call that raises OSError
OSError == <<"OSError">>
\* the failure value of str.encode on a lone surrogate
EncodeError == <<"UnicodeEncodeError">>

\* str.encode('utf-8') as the interpreter runs it: it raises on a surrogate
EncodeStrict(s) ==
    IF \E i \in 1..Len(s) : s[i] = Surrogate THEN EncodeError ELSE Encode(s)

\* the node the kernel reaches walking the components of a path from cur:
\* every component but the last must be a directory, ".." is its parent
NoEnt == <<"ENOENT">>
RECURSIVE Walk(_, _, _)
Walk(f, comps, cur) ==
    IF cur \notin DOMAIN f THEN NoEnt
    ELSE IF comps = <<>> THEN cur
    ELSE IF f[cur].kind # "dir" THEN NoEnt
    ELSE IF Head(comps) = <<>> \/ Head(comps) = <<".">> THEN Walk(f, Tail(comps), cur)
    ELSE IF Head(comps) = <<".", ".">>
         THEN Walk(f, Tail(comps), Abspath(cur \o <<"/", ".", ".">>))
    ELSE Walk(f, Tail(comps), PathJoin(cur, Head(comps)))

Resolve(f, p) == Walk(f, Split(p, Sep), <<Sep>>)

\* os.path.isdir(p), os.path.isfile(p), os.access(p, os.R_OK)
IsDir(f, p) == Resolve(f, p) # NoEnt /\ f[Resolve(f, p)].kind = "dir"
IsFile(f, p) == Resolve(f, p) # NoEnt /\ f[Resolve(f, p)].kind = "file"
Access(f, p) == Resolve(f, p) # NoEnt /\ f[Resolve(f, p)].readable

\* os.listdir(p): it raises OSError when p is no readable directory, and
\* returns the names in it otherwise, in no particular order
Children(f, d) ==
    {Basename(q) : q \in {n \in DOMAIN f : n # <<Sep>> /\ Abspath(n \o <<"/", ".", ".">>) = d}}
ListDirRaises(f, p) == ~(IsDir(f, p) /\ Access(f, p))
ListDir(f, p) == IF ListDirRaises(f, p) THEN {} ELSE Children(f, Resolve(f, p))

\* open(p, 'rb').read(): OSError when p is no readable file
ReadFile(f, p) ==
    IF IsFile(f, p) /\ Access(f, p) THEN f[Resolve(f, p)].content ELSE OSError

\* the orders in which os.listdir may return a set of names
Orders(S) ==
    {o \in [1..Cardinality(S) -> S] : \A i, j \in DOMAIN o : o[i] = o[j] => i = j}

\* mimetypes.guess_type(p)[0]: the type of the file name's extension, None
\* (here <<>>) when it has none the table knows
MimeTable ==
    << <<<<".", "h", "t", "m", "l">>, <<"t", "e", "x", "t", "/", "h", "t", "m", "l">>>>,
       <<<<".", "t", "x", "t">>, <<"t", "e", "x", "t", "/", "p", "l", "a", "i", "n">>>>,
       <<<<".", "z", "i", "p">>, <<"a", "p", "p", "l", "i", "c", "a", "t", "i", "o", "n", "/", "z", "i", "p">>>> >>
GuessType(p) ==
    IF \E i \in DOMAIN MimeTable : EndsWith(p, MimeTable[i][1])
    THEN MimeTable[CHOOSE i \in DOMAIN MimeTable : EndsWith(p, MimeTable[i][1])][2]
    ELSE <<>>

(***************************************************************************)
(* create_response.  content is a Python value, bytes or str; the result   *)
(* is the message the function returns, kept in its parts (status line,    *)
(* headers in insertion order, encoded body).  The minimal server's        *)
(* function is the same without extra_headers.                             *)
(***************************************************************************)
Bytes(v) == [t |-> "bytes", v |-> v]
Str(v) == [t |-> "str", v |-> v]

DefaultHeaders ==
    << <<<<"S", "e", "r", "v", "e", "r">>, <<"S", "i", "m", "p", "l", "e", "P", "y", "t", "h", "o", "n", "W", "e", "b", "S", "e", "r", "v", "e", "r">>>>, <<<<"C", "o", "n", "n", "e", "c", "t", "i", "o", "n">>, <<"c", "l", "o", "s", "e">>>> >>

\* headers[key] = value on a dict that keeps insertion order
RECURSIVE DictSet(_, _, _)
DictSet(h, key, value) ==
    IF h = <<>> THEN << <<key, value>> >>
    ELSE IF Head(h)[1] = key THEN << <<key, value>> >> \o Tail(h)
    ELSE <<Head(h)>> \o DictSet(Tail(h), key, value)

\* headers.update(extra)
RECURSIVE DictUpdate(_, _)
DictUpdate(h, extra) ==
    IF extra = <<>> THEN h
    ELSE DictUpdate(DictSet(h, Head(extra)[1], Head(extra)[2]), Tail(extra))

\* the body bytes: content as it is for bytes, its UTF-8 encoding for str
BodyBytes(content) ==
    IF content.t = "bytes" THEN content.v ELSE EncodeStrict(content.v)

\* create_response raises when encoding the body raises
CreateResponseRaises(content) ==
    content.v # <<>> /\ BodyBytes(content) = EncodeError

\* create_response(status_code, status_message, content, content_type,
\* extra_headers), when it returns
CreateResponse(status_code, status_message, content, content_type, extra_headers) ==
    LET h1 == IF content.v # <<>>
              THEN DictSet(DictSet(DefaultHeaders,
                                   <<"C", "o", "n", "t", "e", "n", "t", "-", "L", "e", "n", "g", "t", "h">>, IntToStr(Len(content.v))),
                           <<"C", "o", "n", "t", "e", "n", "t", "-", "T", "y", "p", "e">>, content_type)
              ELSE DefaultHeaders
        headers == DictUpdate(h1, extra_headers)
    IN  [status_code |-> status_code,
         status_message |-> status_message,
         headers |-> headers,
         body |-> IF content.v # <<>> THEN BodyBytes(content) ELSE <<>>]

\* one header as create_response writes it
HeaderLine(kv) == kv[1] \o <<":", " ">> \o kv[2]

\* a slip: the blank line written only ahead of a body
WireBytesBare(r) ==
    LET response_line ==
            <<"H", "T", "T", "P", "/", "1", ".", "1", " ">> \o IntToStr(r.status_code) \o <<" ">> \o r.status_message
            \o <<"\r", "\n">>
        headers_str ==
            Join([i \in DOMAIN r.headers |-> HeaderLine(r.headers[i])], <<"\r", "\n">>)
            \o (IF r.body # <<>> THEN <<"\r", "\n", "\r", "\n">> ELSE <<"\r", "\n">>)
    IN  Encode(response_line) \o Encode(headers_str) \o r.body

\* the bytes create_response returns for a message: the status line, the
\* headers joined by CRLF and closed by two CRLF, both encoded, then the body
WireBytes(r) ==
    LET response_line ==
            <<"H", "T", "T", "P", "/", "1", ".", "1", " ">> \o IntToStr(r.status_code) \o <<" ">> \o r.status_message
            \o <<"\r", "\n">>
        headers_str ==
            Join([i \in DOMAIN r.headers |-> HeaderLine(r.headers[i])], <<"\r", "\n">>)
            \o <<"\r", "\n", "\r", "\n">>
    IN  Encode(response_line) \o Encode(headers_str) \o r.body

\* the defaults of create_response's parameters
NoContent == Bytes(<<>>)
DefaultType == <<"t", "e", "x", "t", "/", "h", "t", "m", "l">>

\* the responses handle_client builds
BadRequest == CreateResponse(400, <<"B", "a", "d", " ", "R", "e", "q", "u", "e", "s", "t">>, NoContent, DefaultType, <<>>)
MethodNotAllowed ==
    CreateResponse(405, <<"M", "e", "t", "h", "o", "d", " ", "N", "o", "t", " ", "A", "l", "l", "o", "w", "e", "d">>, NoContent, DefaultType, <<>>)
Forbidden == CreateResponse(403, <<"F", "o", "r", "b", "i", "d", "d", "e", "n">>, NoContent, DefaultType, <<>>)
NotFoundBody == <<"<", "h", "1", ">", "4", "0", "4", " ", "N", "o", "t", " ", "F", "o", "u", "n", "d", "<", "/", "h", "1", ">">>
\* a slip: the 404 built like the 400, 403 and 405, without its body
NotFoundNoBody == CreateResponse(404, <<"N", "o", "t", " ", "F", "o", "u", "n", "d">>, NoContent, DefaultType, <<>>)
NotFound == CreateResponse(404, <<"N", "o", "t", " ", "F", "o", "u", "n", "d">>, Bytes(NotFoundBody), DefaultType, <<>>)
InternalErrorBody == <<"<", "h", "1", ">", "5", "0", "0", " ", "I", "n", "t", "e", "r", "n", "a", "l", " ", "S", "e", "r", "v", "e", "r", " ", "E", "r", "r", "o", "r", "<", "/", "h", "1", ">">>
InternalError ==
    CreateResponse(500, <<"I", "n", "t", "e", "r", "n", "a", "l", " ", "S", "e", "r", "v", "e", "r", " ", "E", "r", "r", "o", "r">>, Bytes(InternalErrorBody),
                   DefaultType, <<>>)
ListingErrorText == <<"<", "h", "1", ">", "U8BFB", "U53D6", "U76EE", "U5F55", "U5931", "U8D25", "<", "/", "h", "1", ">">>
\* a slip: the directory branch's except clause answering 200
ListingErrorAs200 ==
    CreateResponse(200, <<"O", "K">>, Str(ListingErrorText), DefaultType, <<>>)
ListingError ==
    CreateResponse(500, <<"I", "n", "t", "e", "r", "n", "a", "l", " ", "S", "e", "r", "v", "e", "r", " ", "E", "r", "r", "o", "r">>, Str(ListingErrorText),
                   DefaultType, <<>>)

\* the directory listing: the title, then one list item per name
ListingTitle == <<"<", "h", "1", ">", "U76EE", "U5F55", "U5217", "U8868", "UFF1A">>
\* a slip: the link target is the bare name, not joined to the request path
RECURSIVE ListingItemsBare(_, _)
ListingItemsBare(path, items) ==
    IF items = <<>> THEN <<>>
    ELSE <<"<", "l", "i", ">", "<", "a", " ", "h", "r", "e", "f", "=", "\"">> \o Head(items) \o <<"\"", ">">> \o Head(items) \o <<"<", "/", "a", ">", "<", "/", "l", "i", ">">>
         \o ListingItemsBare(path, Tail(items))

RECURSIVE ListingItems(_, _)
ListingItems(path, items) ==
    IF items = <<>> THEN <<>>
    ELSE LET item == Head(items)
             item_path == Replace(PathJoin(path, item), "\\", "/")
         IN  <<"<", "l", "i", ">", "<", "a", " ", "h", "r", "e", "f", "=", "\"">> \o item_path \o <<"\"", ">">> \o item \o <<"<", "/", "a", ">", "<", "/", "l", "i", ">">>
             \o ListingItems(path, Tail(items))

ListingContent(path, items) ==
    ListingTitle \o path \o <<"<", "/", "h", "1", ">", "<", "u", "l", ">">> \o ListingItems(path, items) \o <<"<", "/", "u", "l", ">">>

\* the directory branch of the extended server: the listing as a 200, or
\* the branch's own 500 when enumerating or assembling raises
ListingRaises(f, path, abs_path, order) ==
    IF ListDirRaises(f, abs_path) THEN "listdir"
    ELSE IF CreateResponseRaises(Str(ListingContent(path, order))) THEN "encode"
    ELSE ""

ListingResponse(f, path, abs_path, order) ==
    LET content == Str(ListingContent(path, order))
    IN  IF ListDirRaises(f, abs_path) \/ CreateResponseRaises(content)
        THEN ListingError
        ELSE CreateResponse(200, <<"O", "K">>, content, <<"t", "e", "x", "t", "/", "h", "t", "m", "l">>, <<>>)

\* the extensions the extended server marks as downloads
DownloadExts == {<<".", "d", "o", "c">>, <<".", "d", "o", "c", "x">>, <<".", "p", "d", "f">>, <<".", "x", "l", "s", "x">>, <<".", "z", "i", "p">>}
ExtraHeaders(abs_path) ==
    IF \E ext \in DownloadExts : EndsWith(abs_path, ext)
    THEN << <<<<"C", "o", "n", "t", "e", "n", "t", "-", "D", "i", "s", "p", "o", "s", "i", "t", "i", "o", "n">>,
              <<"a", "t", "t", "a", "c", "h", "m", "e", "n", "t", ";", " ", "f", "i", "l", "e", "n", "a", "m", "e", "=", "\"">> \o Basename(abs_path) \o <<"\"">>>> >>
    ELSE <<>>

\* the file branch: the file's bytes as a 200 with the guessed type
FileResponse(im, content, p) ==
    LET guessed == GuessType(p)
        mime_type == IF guessed # <<>> THEN guessed
                     ELSE IF im = "extended" THEN <<"a", "p", "p", "l", "i", "c", "a", "t", "i", "o", "n", "/", "o", "c", "t", "e", "t", "-", "s", "t", "r", "e", "a", "m">>
                     ELSE <<"t", "e", "x", "t", "/", "p", "l", "a", "i", "n">>
    IN  CreateResponse(200, <<"O", "K">>, Bytes(content), mime_type,
                       IF im = "extended" THEN ExtraHeaders(p) ELSE <<>>)

(***************************************************************************)
(* What a client may send: the bytes one recv returns.                     *)
(***************************************************************************)
\* client_socket.recv(1024)
RecvSize == 1024

RequestLine(method, target) == method \o <<" ">> \o target \o <<" ", "H", "T", "T", "P", "/", "1", ".", "1", "\r", "\n">>

GetTargets ==
    {<<"/">>, <<"/", "i", "n", "d", "e", "x", ".", "h", "t", "m", "l">>, <<"/", "d">>, <<"/", "d", "/", "a", ".", "t", "x", "t">>, <<"/", "z", ".", "z", "i", "p">>, <<"/", "m">>, <<"/", "u">>, <<"/", "n">>,
     <<"/", ".", ".", "/", "s">>, <<"/", ".", ".", "/", "r", "e", "/", "s">>, <<"/", "%", "2", "e", "%", "2", "e", "/", "s">>}
PostTargets == {<<"/", "d">>, <<"/", ".", ".", "/", "s">>}

Requests ==
    {<<>>, <<" ", "\r", "\n">>, <<"G", "E", "T", "\r", "\n">>, <<InvalidByte>>, <<"g", "e", "t", " ", "/", " ", "H", "T", "T", "P", "/", "1", ".", "1", "\r", "\n">>}
    \cup {RequestLine(<<"G", "E", "T">>, t) : t \in GetTargets}
    \cup {RequestLine(<<"P", "O", "S", "T">>, t) : t \in PostTargets}

\* the requests sent where two connections are compared, and where several
\* are open at once
TwinTargets == {<<"/">>, <<"/", "i", "n", "d", "e", "x", ".", "h", "t", "m", "l">>, <<"/", "%", "2", "e", "%", "2", "e", "/", "s">>, <<"/", ".", ".", "/", "s">>}
TwinRequests == {RequestLine(<<"G", "E", "T">>, t) : t \in TwinTargets}
PoolTargets == {<<"/">>, <<"/", "m">>}
PoolRequests == {RequestLine(<<"G", "E", "T">>, t) : t \in PoolTargets}

\* what another process may do to the filesystem while the server runs:
\* remove these nodes (a directory with all below it), make these unreadable
Removable == {<<"/", "r", "/", "d", "/", "a", ".", "t", "x", "t">>, <<"/", "r", "/", "d">>}
Lockable == {<<"/", "r", "/", "d", "/", "a", ".", "t", "x", "t">>}

Remove(f, p) ==
    [n \in {q \in DOMAIN f : q # p /\ ~StartsWith(q, p \o <<Sep>>)} |-> f[n]]
Lock(f, p) == [f EXCEPT ![p].readable = FALSE]

\* the states another process can bring the filesystem into
FsChanges(S) ==
    S \cup UNION {{Remove(f, p) : p \in Removable \cap DOMAIN f} : f \in S}
      \cup UNION {{Lock(f, p) : p \in {q \in Lockable \cap DOMAIN f : f[q].readable}}
                  : f \in S}
RECURSIVE FsClosure(_)
FsClosure(S) == IF FsChanges(S) = S THEN S ELSE FsClosure(FsChanges(S))

IndexPath == <<"/", "r", "/", "i", "n", "d", "e", "x", ".", "h", "t", "m", "l">>

\* the root with the default document present, missing, unreadable, or a
\* directory of that name
RootStates ==
    {InitialFs,
     Remove(InitialFs, IndexPath),
     Lock(InitialFs, IndexPath),
     [InitialFs EXCEPT ![IndexPath] = Dir(TRUE)]
         @@ (IndexPath \o <<"/", "x">>) :> File(TRUE, <<"X">>)}

\* every filesystem the server is run on
FsStates == FsClosure({InitialFs}) \cup RootStates

(***************************************************************************)
(* The state.                                                              *)
(***************************************************************************)
VARIABLES
    impl,       \* which server runs: "minimal" or "extended"
    loop,       \* the accept loop of start: "accepting" or "stopped"
    fs,         \* the filesystem
    conn        \* per accepted connection, the state of its handle_client

vars == <<impl, loop, fs, conn>>

Conns == 1..MaxConns
NoResponse == <<>>

\* a connection not accepted yet.  pc is where its handler stands; received
\* whether recv has returned, data the bytes it returned and parts the
\* tokens of the request line; path the request path and target the path
\* handed to the filesystem calls; kind the handler's classification of
\* target; resp the value of response; sends the sendall calls made, each
\* with whether it returned; fsops the filesystem calls made; closes the
\* close calls made; error the call whose exception was caught last ("" when
\* none was); raised whether an exception left handle_client
Idle ==
    [pc |-> "idle", data |-> <<>>, parts |-> <<>>, path |-> <<>>, target |-> <<>>,
     kind |-> "", resp |-> NoResponse, sends |-> <<>>, fsops |-> <<>>,
     closes |-> 0, error |-> "", received |-> FALSE, raised |-> FALSE]

Init ==
    /\ impl \in {"minimal", "extended"}
    /\ loop = "accepting"
    /\ fs = InitialFs
    /\ conn = [c \in Conns |-> Idle]

(***************************************************************************)
(* start: the accept loop.                                                 *)
(***************************************************************************)
\* a slip: the connection handled before the next accept, no thread started
AcceptSerial(c) ==
    /\ loop = "accepting"
    /\ conn[c].pc = "idle"
    /\ \A d \in DOMAIN conn : d < c => conn[d].pc = "done"
    /\ conn' = [conn EXCEPT ![c].pc = "recv"]
    /\ UNCHANGED <<impl, loop, fs>>

\* accept returns a connection and a thread is started on handle_client
Accept(c) ==
    /\ loop = "accepting"
    /\ conn[c].pc = "idle"
    /\ \A d \in DOMAIN conn : d < c => conn[d].pc # "idle"
    /\ conn' = [conn EXCEPT ![c].pc = "recv"]
    /\ UNCHANGED <<impl, loop, fs>>

\* KeyboardInterrupt: the loop ends and the listening socket is closed
Interrupt ==
    /\ loop = "accepting"
    /\ loop' = "stopped"
    /\ UNCHANGED <<impl, fs, conn>>

(***************************************************************************)
(* handle_client, from recv to the first filesystem call or send.          *)
(***************************************************************************)
\* a slip: the containment test left out
WithinRootUntested(abs_path) == TRUE

\* the containment test of the code: a prefix test on the strings
WithinRoot(abs_path) == StartsWith(abs_path, root_dir)

\* a slip: the method compared without regard to case
IsGetAnyCase(method) == method \in {<<"G", "E", "T">>, <<"g", "e", "t">>}

\* method != 'GET', negated
IsGet(method) == method = <<"G", "E", "T">>

\* a slip: the early return on an empty read placed outside try/finally
EmptyReadSkipsFinally == "done"

\* a slip: recv called again when it returned nothing
EmptyReadRetries == "recv"

\* where `return` on an empty read leads: into the finally clause
EmptyRead == "close"

\* a slip: the default document never put in place of "/"
RequestPathAsSent(im, raw_path) ==
    IF im = "extended" THEN Unquote(raw_path) ELSE raw_path

\* a slip: the token used as it came, never percent-decoded
RequestPathRaw(im, raw_path) ==
    IF raw_path = <<"/">> THEN <<"/", "i", "n", "d", "e", "x", ".", "h", "t", "m", "l">> ELSE raw_path

\* the request path: the second token, percent-decoded by the extended
\* server, with "/" rewritten to the default document
RequestPath(im, raw_path) ==
    LET path == IF im = "extended" THEN Unquote(raw_path) ELSE raw_path
    IN  IF path = <<"/">> THEN <<"/", "i", "n", "d", "e", "x", ".", "h", "t", "m", "l">> ELSE path

FilePath(path) == PathJoin(root_dir, LStrip(path, Sep))

\* the outcome of the handler's first part on the bytes recv returned:
\* where it goes next and with which response
Parse(im, data) ==
    LET request_data == Decode(SubSeq(data, 1, IF Len(data) < RecvSize
                                               THEN Len(data) ELSE RecvSize),
                               "strict")
        parts == SplitWords(FirstLine(request_data))
        path == RequestPath(im, parts[2])
        abs_path == Abspath(FilePath(path))
        none == [next |-> "", resp |-> NoResponse, parts |-> <<>>, path |-> <<>>,
                 target |-> <<>>, error |-> ""]
        split == [none EXCEPT !.parts = parts]
    IN  IF request_data = DecodeError
        THEN [none EXCEPT !.next = "send_except", !.resp = InternalError,
                          !.error = "decode"]
        ELSE IF request_data = <<>>
        THEN [none EXCEPT !.next = EmptyRead]
        ELSE IF Len(parts) < 2
        THEN [split EXCEPT !.next = "send", !.resp = BadRequest]
        ELSE IF ~IsGet(parts[1])
        THEN [split EXCEPT !.next = "send", !.resp = MethodNotAllowed]
        ELSE IF ~WithinRoot(abs_path)
        THEN [split EXCEPT !.next = "send", !.resp = Forbidden, !.path = path]
        ELSE [split EXCEPT !.next = "classify", !.path = path,
                          !.target = IF im = "extended" THEN abs_path
                                     ELSE FilePath(path)]

\* Parse of every request a client may send, worked out once
Impls == {"minimal", "extended"}
Parsed ==
    [im \in Impls |->
        [data \in Requests \cup TwinRequests \cup PoolRequests |-> Parse(im, data)]]

\* recv returns data; the request is decoded, parsed and validated
Receive(c, data) ==
    /\ conn[c].pc = "recv"
    /\ LET p == Parsed[impl][data]
       IN  conn' = [conn EXCEPT ![c].pc = p.next, ![c].data = data,
                                ![c].received = TRUE,
                                ![c].parts = p.parts,
                                ![c].resp = p.resp, ![c].path = p.path,
                                ![c].target = p.target,
                                ![c].error = p.error]
    /\ UNCHANGED <<impl, loop, fs>>

Recv(c) == \E data \in Requests : Receive(c, data)

\* recv raises (the peer reset the connection): the except clause
RecvFails(c) ==
    /\ conn[c].pc = "recv"
    /\ conn' = [conn EXCEPT ![c].pc = "send_except", ![c].resp = InternalError,
                             ![c].error = "recv"]
    /\ UNCHANGED <<impl, loop, fs>>

(***************************************************************************)
(* handle_client, the filesystem part.                                     *)
(***************************************************************************)
\* the calls that classify target, in the order the code makes them, and
\* the classification: the extended server asks isdir first
ClassifyOps(im, f, p) ==
    (IF im = "extended" THEN << <<"isdir", p>> >> ELSE <<>>)
    \o (IF im = "extended" /\ IsDir(f, p) THEN <<>>
        ELSE << <<"isfile", p>> >>
             \o (IF IsFile(f, p) THEN << <<"access", p>> >> ELSE <<>>))

\* a slip: the readability test left out
ClassifyKindUntested(im, f, p) ==
    IF im = "extended" /\ IsDir(f, p) THEN "dir"
    ELSE IF IsFile(f, p) THEN "file"
    ELSE "none"

ClassifyKind(im, f, p) ==
    IF im = "extended" /\ IsDir(f, p) THEN "dir"
    ELSE IF IsFile(f, p) /\ Access(f, p) THEN "file"
    ELSE "none"

\* the request path and the path handed to the filesystem calls, for every
\* request that gets as far as those calls
Lookups ==
    {<<Parsed[im][data].path, Parsed[im][data].target>> :
        <<im, data>> \in {x \in Impls \X DOMAIN Parsed["minimal"] :
                            Parsed[x[1]][x[2]].next = "classify"}}
Targets == {l[2] : l \in Lookups}

\* the classification of every target on every filesystem, worked out once
Classified ==
    [im \in Impls |-> [f \in FsStates |-> [p \in Targets |->
        [kind |-> ClassifyKind(im, f, p), ops |-> ClassifyOps(im, f, p)]]]]

Classify(c) ==
    /\ conn[c].pc = "classify"
    /\ LET found == Classified[impl][fs][conn[c].target]
       IN  conn' = [conn EXCEPT
                ![c].kind = found.kind,
                ![c].fsops = @ \o found.ops,
                ![c].pc = IF found.kind = "none" THEN "send" ELSE "read",
                ![c].resp = IF found.kind = "none" THEN NotFound ELSE @]
    /\ UNCHANGED <<impl, loop, fs>>

\* os.listdir and the listing, inside the directory branch's own try
\* the outcome of the directory branch for every lookup on every
\* filesystem and every order os.listdir may return, worked out once
Listed ==
    [f \in FsStates |-> [l \in Lookups |->
        {[resp |-> ListingResponse(f, l[1], l[2], order),
          error |-> ListingRaises(f, l[1], l[2], order)] :
            order \in Orders(ListDir(f, l[2]))}]]

ReadDir(c) ==
    /\ conn[c].pc = "read"
    /\ conn[c].kind = "dir"
    /\ \E listing \in Listed[fs][<<conn[c].path, conn[c].target>>] :
          conn' = [conn EXCEPT
              ![c].fsops = Append(@, <<"listdir", conn[c].target>>),
              ![c].resp = listing.resp,
              ![c].error = listing.error,
              ![c].pc = "send"]
    /\ UNCHANGED <<impl, loop, fs>>

\* open and read; an OSError goes to the except clause
\* the outcome of the file branch for every target on every filesystem,
\* worked out once
Opened ==
    [im \in Impls |-> [f \in FsStates |-> [p \in Targets |->
        LET content == ReadFile(f, p)
        IN  IF content = OSError
            THEN [raises |-> TRUE, resp |-> InternalError]
            ELSE [raises |-> FALSE, resp |-> FileResponse(im, content, p)]]]]

ReadOpen(c) ==
    /\ conn[c].pc = "read"
    /\ conn[c].kind = "file"
    /\ LET read == Opened[impl][fs][conn[c].target]
       IN  conn' = [conn EXCEPT
                ![c].fsops = Append(@, <<"open", conn[c].target>>),
                ![c].resp = read.resp,
                ![c].error = IF read.raises THEN "open" ELSE @,
                ![c].pc = IF read.raises THEN "send_except" ELSE "send"]
    /\ UNCHANGED <<impl, loop, fs>>

(***************************************************************************)
(* handle_client: sendall, the except clause and the finally clause.       *)
(***************************************************************************)
\* sendall(response) inside the try: it returns, or it raises and the
\* except clause builds the 500
Send(c) ==
    /\ conn[c].pc = "send"
    /\ \E ok \in BOOLEAN :
          conn' = [conn EXCEPT
              ![c].sends = Append(@, [resp |-> conn[c].resp, ok |-> ok]),
              ![c].pc = IF ok THEN "close" ELSE "send_except",
              ![c].error = IF ok THEN @ ELSE "sendall",
              ![c].resp = IF ok THEN @ ELSE InternalError]
    /\ UNCHANGED <<impl, loop, fs>>

\* sendall(response) inside the except clause: it returns, or it raises
\* and the exception leaves handle_client through the finally clause
SendExcept(c) ==
    /\ conn[c].pc = "send_except"
    /\ \E ok \in BOOLEAN :
          conn' = [conn EXCEPT
              ![c].sends = Append(@, [resp |-> conn[c].resp, ok |-> ok]),
              ![c].pc = "close",
              ![c].error = IF ok THEN @ ELSE "sendall",
              ![c].raised = ~ok]
    /\ UNCHANGED <<impl, loop, fs>>

\* finally: client_socket.close()
Close(c) ==
    /\ conn[c].pc = "close"
    /\ conn' = [conn EXCEPT ![c].closes = @ + 1, ![c].pc = "done"]
    /\ UNCHANGED <<impl, loop, fs>>

(***************************************************************************)
(* The environment: another process changes the filesystem.                *)
(***************************************************************************)
\* a file or a directory tree is removed
FsRemove ==
    /\ \E p \in Removable \cap DOMAIN fs : fs' = Remove(fs, p)
    /\ UNCHANGED <<impl, loop, conn>>

\* a file is made unreadable
FsLock ==
    /\ \E p \in Lockable \cap DOMAIN fs : fs[p].readable /\ fs' = Lock(fs, p)
    /\ UNCHANGED <<impl, loop, conn>>

Next ==
    \/ \E c \in Conns : Accept(c)
    \/ Interrupt
    \/ \E c \in Conns : Recv(c)
    \/ \E c \in Conns : RecvFails(c)
    \/ \E c \in Conns : Classify(c)
    \/ \E c \in Conns : ReadDir(c)
    \/ \E c \in Conns : ReadOpen(c)
    \/ \E c \in Conns : Send(c)
    \/ \E c \in Conns : SendExcept(c)
    \/ \E c \in Conns : Close(c)
    \/ FsRemove
    \/ FsLock

Spec == Init /\ [][Next]_vars

(***************************************************************************)
(* A second specification, for comparing the handling of two requests: two *)
(* connections served from one filesystem that nobody changes meanwhile.   *)
(* The root is in one of a few states, and each client sends one of a few  *)
(* requests.                                                               *)
(***************************************************************************)
Twins == {1, 2}

InitTwin ==
    /\ impl \in {"minimal", "extended"}
    /\ loop = "accepting"
    /\ fs \in RootStates
    /\ conn = [c \in Twins |-> Idle]

NextTwin ==
    \/ \E c \in Twins : Accept(c)
    \/ Interrupt
    \/ \E c \in Twins : \E data \in TwinRequests : Receive(c, data)
    \/ \E c \in Twins : RecvFails(c)
    \/ \E c \in Twins : Classify(c)
    \/ \E c \in Twins : ReadDir(c)
    \/ \E c \in Twins : ReadOpen(c)
    \/ \E c \in Twins : Send(c)
    \/ \E c \in Twins : SendExcept(c)
    \/ \E c \in Twins : Close(c)

SpecTwin == InitTwin /\ [][NextTwin]_vars

(***************************************************************************)
(* A third specification, for what the threads do to each other: several   *)
(* connections open at once, each client sending one of two requests, the  *)
(* filesystem left alone.  FairPool adds what the scheduling gives: the    *)
(* accept loop runs while it is not interrupted, and the thread of every    *)
(* connection but the first runs and its socket calls return.  The first   *)
(* connection's thread is promised nothing: it may be held up for ever in   *)
(* recv or in sendall.                                                      *)
(***************************************************************************)
Workers == 2
Pool == 1..Workers

InitPool ==
    /\ impl \in {"minimal", "extended"}
    /\ loop = "accepting"
    /\ fs = InitialFs
    /\ conn = [c \in Pool |-> Idle]

\* one step of the thread started for connection c
Step(c) ==
    \/ RecvFails(c)
    \/ \E data \in PoolRequests : Receive(c, data)
    \/ Classify(c)
    \/ ReadOpen(c)
    \/ Send(c)
    \/ SendExcept(c)
    \/ Close(c)

NextPool ==
    \/ \E c \in Pool : Accept(c)
    \/ Interrupt
    \/ \E c \in Pool : Step(c)

SpecPool == InitPool /\ [][NextPool]_vars

HeldUp == 1

FairPool ==
    /\ SpecPool
    /\ WF_vars(\E c \in Pool : Accept(c))
    /\ \A c \in Pool \ {HeldUp} : WF_vars(Step(c))

(***************************************************************************)
(* A fourth specification, for one invocation of handle_client followed    *)
(* from accept to its end: one connection, any request, the filesystem     *)
(* changing underneath it, the accept loop interrupted or not.  FairOne    *)
(* adds that the thread runs and that recv and every sendall return or     *)
(* raise: a handler that can take a step does take one.                    *)
(***************************************************************************)
One == {1}

InitOne ==
    /\ impl \in Impls
    /\ loop = "accepting"
    /\ fs = InitialFs
    /\ conn = [c \in One |-> Idle]

\* one step of handle_client on connection c
HandleClient(c) ==
    \/ RecvFails(c)
    \/ Recv(c)
    \/ Classify(c)
    \/ ReadDir(c)
    \/ ReadOpen(c)
    \/ Send(c)
    \/ SendExcept(c)
    \/ Close(c)

NextOne ==
    \/ \E c \in One : Accept(c)
    \/ Interrupt
    \/ \E c \in One : HandleClient(c)
    \/ FsRemove
    \/ FsLock

SpecOne == InitOne /\ [][NextOne]_vars

FairOne == SpecOne /\ \A c \in One : WF_vars(HandleClient(c))

(***************************************************************************)
(* Vocabulary of the properties.                                           *)
(***************************************************************************)
Handled(c) == conn[c].pc \notin {"idle", "recv"}
Done(c) == conn[c].pc = "done"

\* the bytes a connection received are text
Decodable(c) == Decode(conn[c].data, "strict") # DecodeError
\* the tokens of the first line of the request a connection received
RequestTokens(c) == conn[c].parts

\* the connection received a request line of at least two tokens, the first GET
IsGetRequest(c) ==
    /\ conn[c].received
    /\ Len(RequestTokens(c)) >= 2
    /\ RequestTokens(c)[1] = <<"G", "E", "T">>

\* the request path joined onto the root and canonicalized
Canonical(c) == Abspath(FilePath(RequestPath(impl, RequestTokens(c)[2])))

\* containment by path segments: the root itself or a path below it
SegmentWithin(p, root) == p = root \/ StartsWith(p, root \o <<Sep>>)

HasHeader(r, key) == \E i \in DOMAIN r.headers : r.headers[i][1] = key
HeaderValue(r, key) ==
    r.headers[CHOOSE i \in DOMAIN r.headers : r.headers[i][1] = key][2]
HeaderIs(r, key, value) == HasHeader(r, key) /\ HeaderValue(r, key) = value

\* the hyperlinks of an HTML body: where each starts, and its target
LinkMark == <<"<", "a", " ", "h", "r", "e", "f", "=", "\"">>
LinkStarts(b) ==
    {i \in 1..(Len(b) - Len(LinkMark) + 1) :
        SubSeq(b, i, i + Len(LinkMark) - 1) = LinkMark}
LinkTarget(b, i) ==
    LET from == i + Len(LinkMark)
        to == CHOOSE j \in from..Len(b) :
                  b[j] = "\"" /\ \A k \in from..(j - 1) : b[k] # "\""
    IN  SubSeq(b, from, to - 1)

\* the link target expected for a child: the request path, a slash unless
\* the path ends with one, the name; backslashes written as slashes
ExpectedHref(path, name) ==
    LET joined == (IF path[Len(path)] = Sep THEN path ELSE path \o <<Sep>>) \o name
    IN  [i \in 1..Len(joined) |-> IF joined[i] = "\\" THEN Sep ELSE joined[i]]

\* body holds exactly one hyperlink per name, each with the expected target
ListsChildren(body, path, names) ==
    /\ Cardinality(LinkStarts(body)) = Cardinality(names)
    /\ \A n \in names :
          \E i \in LinkStarts(body) :
              LinkTarget(body, i) = Encode(ExpectedHref(path, n))

Encodable(names) == \A n \in names : \A i \in 1..Len(n) : n[i] # Surrogate

(***************************************************************************)
(* C1.  The statement: on every path through handle_client exactly one     *)
(* response is sent on the socket, never zero and never two.  It fails: an *)
(* empty read returns without any sendall, and a sendall that raises is    *)
(* followed by a second sendall of the 500.                                *)
(***************************************************************************)
C1_ExactlyOneResponse ==
    \A c \in Conns : Done(c) => Len(conn[c].sends) = 1

(***************************************************************************)
(* C2.  The statement: a GET whose canonical path lies outside the root,   *)
(* judged by path segments, is answered 403 and no filesystem call is made *)
(* for it.  It fails for a sibling of the root whose name starts with the  *)
(* root's name: the code tests a string prefix.                            *)
(***************************************************************************)
C2_EscapeIsRefused ==
    \A c \in Conns :
        (Handled(c) /\ IsGetRequest(c) /\ ~SegmentWithin(Canonical(c), root_dir))
        => /\ conn[c].fsops = <<>>
           /\ conn[c].pc = "send" => conn[c].resp.status_code = 403
           /\ conn[c].sends # <<>> => conn[c].sends[1].resp.status_code = 403

(***************************************************************************)
(* C3.  On every path through handle_client the client socket is closed    *)
(* exactly once: a handler that has ended has closed it once, it is never  *)
(* closed twice, and once it is closed nothing more is sent on it.         *)
(***************************************************************************)
C3_ClosedOnceAfterSends ==
    /\ [](\A c \in Conns :
            /\ conn[c].closes <= 1
            /\ Done(c) <=> conn[c].closes = 1)
    /\ [][\A c \in Conns :
            conn[c].closes > 0 =>
                /\ conn'[c].sends = conn[c].sends
                /\ conn'[c].closes = conn[c].closes]_vars

\* a handler that sent twice (the second after the first raised) and closed
C3_Witness ==
    \E c \in Conns :
        /\ Done(c)
        /\ Len(conn[c].sends) = 2
        /\ ~conn[c].sends[1].ok
        /\ conn[c].closes = 1

(***************************************************************************)
(* C4.  The statement: every response with a non-empty body carries a      *)
(* Content-Type and a Content-Length equal to the number of bytes of the   *)
(* body written to the socket.  It fails when the body is given as text:   *)
(* the length is counted in characters before the text is encoded.         *)
(***************************************************************************)
C4_ContentLengthIsByteLength ==
    \A c \in Conns :
        \A i \in DOMAIN conn[c].sends :
            LET r == conn[c].sends[i].resp
            IN  r.body # <<>> =>
                    /\ HasHeader(r, <<"C", "o", "n", "t", "e", "n", "t", "-", "T", "y", "p", "e">>)
                    /\ HeaderIs(r, <<"C", "o", "n", "t", "e", "n", "t", "-", "L", "e", "n", "g", "t", "h">>, IntToStr(Len(r.body)))

(***************************************************************************)
(* C5.  The statement: every error response (400, 403, 404, 405, 500) has  *)
(* a non-empty body, and the connection is closed after it.  It fails:     *)
(* the 400, 403 and 405 are built without a body.                          *)
(***************************************************************************)
ErrorStatuses == {400, 403, 404, 405, 500}

C5_EveryErrorHasBody ==
    \A c \in Conns :
        /\ \A i \in DOMAIN conn[c].sends :
              conn[c].sends[i].resp.status_code \in ErrorStatuses
              => conn[c].sends[i].resp.body # <<>>
        /\ Done(c) => conn[c].closes = 1

(***************************************************************************)
(* C5, amended.  Every 404 and every 500 sent carries its fixed, non-empty *)
(* body; every 400, 403 and 405 is sent without a body; and a handler that *)
(* has ended has closed the connection.                                    *)
(***************************************************************************)
C5_ErrorBodies ==
    \A c \in Conns :
        /\ \A i \in DOMAIN conn[c].sends :
              LET r == conn[c].sends[i].resp
              IN  /\ r.status_code = 404 => r.body = NotFoundBody
                  /\ r.status_code = 500 =>
                        r.body \in {InternalErrorBody, Encode(ListingErrorText)}
                  /\ r.status_code \in {400, 403, 405} => r.body = <<>>
                  /\ r.status_code \in ErrorStatuses \cup {200}
        /\ Done(c) => conn[c].closes = 1

\* a 404 was sent with its body and the connection closed
C5_Witness ==
    \E c \in Conns :
        /\ Done(c)
        /\ conn[c].closes = 1
        /\ Len(conn[c].sends) = 1
        /\ conn[c].sends[1].resp.status_code = 404
        /\ conn[c].sends[1].resp.body = NotFoundBody

(***************************************************************************)
(* C6.  The statement: every error met while handling a connection is      *)
(* caught inside handle_client and turned into exactly one response; no    *)
(* exception leaves handle_client.  It fails: the sendall of the except    *)
(* clause is unguarded, and a failed sendall is answered by a second one.  *)
(***************************************************************************)
C6_NoErrorEscapes ==
    \A c \in Conns :
        /\ ~conn[c].raised
        /\ (Done(c) /\ conn[c].error # "") => Len(conn[c].sends) = 1

(***************************************************************************)
(* C7.  The statement: any fault during filesystem access or response      *)
(* assembly yields a 500 with one and the same fixed body.  It fails: the  *)
(* directory branch answers its faults with a body of its own.             *)
(***************************************************************************)
C7_OneFixed500Body ==
    \A c \in Conns :
        \A i \in DOMAIN conn[c].sends :
            conn[c].sends[i].resp.status_code = 500
            => conn[c].sends[i].resp.body = InternalErrorBody

\* the response a handler holds, or the one it sent last
CurrentResponse(c) ==
    IF conn[c].pc \in {"send", "send_except"} THEN conn[c].resp
    ELSE conn[c].sends[Len(conn[c].sends)].resp

(***************************************************************************)
(* C7, amended.  A fault while reading a file yields a 500 with the fixed  *)
(* body of the except clause; a fault while enumerating a directory or     *)
(* assembling its listing yields a 500 with the directory branch's own     *)
(* fixed body.                                                             *)
(***************************************************************************)
C7_FaultBodies ==
    \A c \in Conns :
        conn[c].error \in {"open", "listdir", "encode"}
        => /\ CurrentResponse(c).status_code = 500
           /\ CurrentResponse(c).body =
                 IF conn[c].error = "open" THEN InternalErrorBody
                 ELSE Encode(ListingErrorText)

\* a listing that could not be encoded was answered and the handler ended
C7_Witness ==
    \E c \in Conns :
        /\ Done(c)
        /\ conn[c].error = "encode"
        /\ conn[c].sends[1].resp.status_code = 500
        /\ conn[c].sends[1].ok

(***************************************************************************)
(* C8.  The statement: a connection whose first request line has zero      *)
(* tokens or one token, an empty read included, is answered 400.  It       *)
(* fails for the empty read, which is answered with nothing.               *)
(***************************************************************************)
C8_FewTokensIs400 ==
    \A c \in Conns :
        (Done(c) /\ conn[c].received /\ Decodable(c) /\ Len(RequestTokens(c)) < 2)
        => /\ conn[c].sends # <<>>
           /\ conn[c].sends[1].resp.status_code = 400

(***************************************************************************)
(* C9.  A request line of at least two tokens whose first token is not     *)
(* exactly GET is answered 405 whatever its path: the response built for   *)
(* it, and the first one sent, is the 405; no 403, 404 or 200 is ever      *)
(* sent; no filesystem call is made; and the handler does not end without  *)
(* having sent.                                                            *)
(***************************************************************************)
IsOtherMethod(c) ==
    /\ conn[c].received
    /\ Len(RequestTokens(c)) >= 2
    /\ RequestTokens(c)[1] # <<"G", "E", "T">>

C9_OtherMethodIs405 ==
    \A c \in Conns :
        (Handled(c) /\ IsOtherMethod(c))
        => /\ conn[c].fsops = <<>>
           /\ conn[c].pc = "send" => conn[c].resp.status_code = 405
           /\ conn[c].sends # <<>> => conn[c].sends[1].resp.status_code = 405
           /\ \A i \in DOMAIN conn[c].sends :
                 conn[c].sends[i].resp.status_code \notin {200, 403, 404}
           /\ Done(c) => conn[c].sends # <<>>

\* a POST for a path that escapes the root was answered 405
C9_Witness ==
    \E c \in Conns :
        /\ Done(c)
        /\ IsOtherMethod(c)
        /\ RequestTokens(c)[2] = <<"/", ".", ".", "/", "s">>
        /\ Len(conn[c].sends) = 1
        /\ conn[c].sends[1].ok
        /\ conn[c].sends[1].resp.status_code = 405

(***************************************************************************)
(* C10.  The statement: a GET whose resolved path is an existing directory *)
(* inside the root is answered 200, text/html, with one hyperlink per      *)
(* immediate child.  It fails on the minimal server, which has no          *)
(* directory branch and answers 404.                                       *)
(***************************************************************************)
C10_DirectoryIsListed ==
    \A c \in Conns :
        (/\ conn[c].pc = "send"
         /\ conn[c].sends = <<>>
         /\ IsGetRequest(c)
         /\ WithinRoot(Canonical(c))
         /\ IsDir(fs, Canonical(c)))
        => /\ conn[c].resp.status_code = 200
           /\ HeaderIs(conn[c].resp, <<"C", "o", "n", "t", "e", "n", "t", "-", "T", "y", "p", "e">>, <<"t", "e", "x", "t", "/", "h", "t", "m", "l">>)
           /\ fs = InitialFs =>
                 ListsChildren(conn[c].resp.body, conn[c].path,
                               Children(fs, Canonical(c)))

(***************************************************************************)
(* C10, amended.  On the extended server a GET whose resolved path is an   *)
(* existing directory takes the directory branch, and when the directory   *)
(* can be enumerated and its names encoded the response built is a 200     *)
(* with Content-Type text/html whose body holds exactly one hyperlink per  *)
(* immediate child, its target the request path joined to the child's      *)
(* name with slashes.                                                      *)
(***************************************************************************)
C10_ExtendedListing ==
    [][\A c \in Conns :
          /\ (/\ impl = "extended"
              /\ conn[c].pc = "classify"
              /\ conn'[c].pc # "classify"
              /\ IsDir(fs, conn[c].target))
             => conn'[c].pc = "read" /\ conn'[c].kind = "dir"
          /\ (/\ conn[c].pc = "read"
              /\ conn[c].kind = "dir"
              /\ conn'[c].pc # "read"
              /\ ~ListDirRaises(fs, conn[c].target)
              /\ Encodable(Children(fs, conn[c].target)))
             => /\ conn'[c].pc = "send"
                /\ conn'[c].resp.status_code = 200
                /\ HeaderIs(conn'[c].resp, <<"C", "o", "n", "t", "e", "n", "t", "-", "T", "y", "p", "e">>, <<"t", "e", "x", "t", "/", "h", "t", "m", "l">>)
                /\ ListsChildren(conn'[c].resp.body, conn[c].path,
                                 Children(fs, conn[c].target))]_vars

\* the listing of /d, with its two links, was sent
C10_Witness ==
    \E c \in Conns :
        /\ impl = "extended"
        /\ Done(c)
        /\ conn[c].kind = "dir"
        /\ Len(conn[c].sends) = 1
        /\ conn[c].sends[1].ok
        /\ conn[c].sends[1].resp.status_code = 200
        /\ Cardinality(LinkStarts(conn[c].sends[1].resp.body)) = 2


(***************************************************************************)
(* C11.  Whatever the state of the root, GET / is answered exactly as      *)
(* GET /index.html is: of two connections served from the same filesystem, *)
(* one asking for / and one for /index.html, the responses handed to       *)
(* sendall are the same byte for byte (the first, and each later one after  *)
(* the same sendall outcomes), and so are the filesystem calls made.        *)
(***************************************************************************)
SentBytes(c) == [i \in DOMAIN conn[c].sends |-> WireBytes(conn[c].sends[i].resp)]

\* c and d saw the same outcomes of their first i - 1 sendall calls
SameOutcomes(c, d, i) ==
    \A j \in 1..(i - 1) : conn[c].sends[j].ok = conn[d].sends[j].ok

\* the connection received a GET for this target
Asks(c, target) == IsGetRequest(c) /\ RequestTokens(c)[2] = target

SameHandling(c, d) ==
    /\ \A i \in DOMAIN conn[c].sends \cap DOMAIN conn[d].sends :
           SameOutcomes(c, d, i)
           => /\ conn[c].sends[i].resp = conn[d].sends[i].resp
              /\ SentBytes(c)[i] = SentBytes(d)[i]
    /\ (conn[c].pc = conn[d].pc /\ conn[c].sends = <<>> /\ conn[d].sends = <<>>)
       => /\ conn[c].resp = conn[d].resp
          /\ [i \in DOMAIN conn[c].fsops |-> conn[c].fsops[i][1]]
             = [i \in DOMAIN conn[d].fsops |-> conn[d].fsops[i][1]]
    /\ (Done(c) /\ Done(d)) => conn[c].fsops = conn[d].fsops

C11_RootIsIndex ==
    \A c, d \in Twins :
        (Asks(c, <<"/">>) /\ Asks(d, <<"/", "i", "n", "d", "e", "x", ".", "h", "t", "m", "l">>)) => SameHandling(c, d)

\* both asked, one for / and one for /index.html, and both were sent the
\* document; and in another run both were sent the 404
C11_Witness ==
    /\ Asks(1, <<"/">>) /\ Asks(2, <<"/", "i", "n", "d", "e", "x", ".", "h", "t", "m", "l">>)
    /\ Done(1) /\ Done(2)
    /\ Len(conn[1].sends) = 1 /\ conn[1].sends[1].ok
    /\ conn[1].sends[1].resp.status_code = 200
    /\ conn[1].sends[1].resp.body = <<"h", "i">>
    /\ conn[2].sends = conn[1].sends

(***************************************************************************)
(* C12.  A GET whose resolved path lies inside the root and names nothing  *)
(* that exists, or a file that is not readable, is answered 404 with the   *)
(* fixed body, and the handler never opens a file or lists a directory for *)
(* it.  The step that classifies the path decides it; from then on the 404 *)
(* is the response handed to the first sendall.                            *)
(***************************************************************************)
Missing(f, p) == p \notin DOMAIN f
UnreadableFile(f, p) == p \in DOMAIN f /\ f[p].kind = "file" /\ ~f[p].readable

ReadsContent(c) ==
    \E i \in DOMAIN conn[c].fsops : conn[c].fsops[i][1] \in {"open", "listdir"}

C12_ClassifiedAbsent ==
    \A c \in Conns :
        LET p == Abspath(conn[c].target)
        IN  (/\ conn[c].pc = "classify" /\ conn'[c].pc # "classify"
             /\ SegmentWithin(p, root_dir)
             /\ (Missing(fs, p) \/ UnreadableFile(fs, p)))
            => /\ conn'[c].kind = "none"
               /\ conn'[c].pc = "send"
               /\ conn'[c].resp = NotFound

C12_AbsentAnswered ==
    \A c \in Conns :
        conn[c].kind = "none"
        => /\ ~ReadsContent(c)
           /\ conn[c].sends = <<>> => (conn[c].pc = "send" /\ conn[c].resp = NotFound)
           /\ conn[c].sends # <<>> => conn[c].sends[1].resp = NotFound
           /\ NotFound.status_code = 404 /\ NotFound.body = NotFoundBody

C12_AbsentIs404 == [][C12_ClassifiedAbsent]_vars /\ []C12_AbsentAnswered

\* a request for a file that is there but not readable was answered 404
C12_Witness ==
    \E c \in Conns :
        /\ Done(c) /\ IsGetRequest(c)
        /\ conn[c].target = <<"/", "r", "/", "u">> /\ UnreadableFile(fs, <<"/", "r", "/", "u">>)
        /\ conn[c].kind = "none"
        /\ conn[c].sends = <<[resp |-> NotFound, ok |-> TRUE]>>
        /\ ~ReadsContent(c)

(***************************************************************************)
(* C13.  The handler tests containment before it touches the filesystem:   *)
(* no filesystem call is made before the request is parsed and its path    *)
(* has passed the test, and a request whose path fails the test is         *)
(* answered 403 with no filesystem call made for it at all.  The test      *)
(* meant is the one the code makes, a prefix test on the canonical path.   *)
(***************************************************************************)
PassesTest(c) == StartsWith(Canonical(c), root_dir)

C13_TestedBeforeFilesystem ==
    \A c \in Conns :
        /\ conn[c].fsops # <<>>
           => (Handled(c) /\ IsGetRequest(c) /\ PassesTest(c))
        /\ (Handled(c) /\ IsGetRequest(c) /\ ~PassesTest(c))
           => /\ conn[c].fsops = <<>>
              /\ conn[c].kind = ""
              /\ conn[c].sends = <<>> => conn[c].resp = Forbidden
              /\ conn[c].sends # <<>> => conn[c].sends[1].resp = Forbidden

\* a request for a path outside the root was answered 403 and the handler
\* finished without a filesystem call
C13_Witness ==
    \E c \in Conns :
        /\ Done(c) /\ IsGetRequest(c) /\ ~PassesTest(c)
        /\ conn[c].sends = <<[resp |-> Forbidden, ok |-> TRUE]>>
        /\ Forbidden.status_code = 403
        /\ conn[c].fsops = <<>>

(***************************************************************************)
(* C14.  The statement: the path joined onto the root and tested for       *)
(* containment is the percent-decoded second token, so that a GET for      *)
(* /%2e%2e/s is answered 403 as a GET for /../s is.  It fails for the      *)
(* minimal server, which joins the token as it came.                       *)
(***************************************************************************)
EncodedEscape == <<"/", "%", "2", "e", "%", "2", "e", "/", "s">>
LiteralEscape == <<"/", ".", ".", "/", "s">>

FirstResponseIs(c, r) ==
    /\ conn[c].sends = <<>> => conn[c].resp = r
    /\ conn[c].sends # <<>> => conn[c].sends[1].resp = r

CRLF == <<"\r", "\n">>

HasBlankLine(w) == \E e \in 1..(Len(w) - 3) : SubSeq(w, e, e + 3) = CRLF \o CRLF
\* where the first blank line starts
HeadEnd(w) ==
    CHOOSE e \in 1..(Len(w) - 3) :
        /\ SubSeq(w, e, e + 3) = CRLF \o CRLF
        /\ \A j \in 1..(e - 1) : SubSeq(w, j, j + 3) # CRLF \o CRLF

RECURSIVE Ascending(_)
Ascending(S) ==
    IF S = {} THEN <<>>
    ELSE LET m == CHOOSE x \in S : \A y \in S : x <= y
         IN  <<m>> \o Ascending(S \ {m})

\* the lines of the head, the part before the blank line that starts at e
HeadLines(w, e) ==
    LET breaks == Ascending({i \in 1..(e - 2) : SubSeq(w, i, i + 1) = CRLF})
        n == Len(breaks) + 1
    IN  [k \in 1..n |->
            SubSeq(w, IF k = 1 THEN 1 ELSE breaks[k - 1] + 2,
                      IF k = n THEN e - 1 ELSE breaks[k] - 1)]
BodyPart(w, e) == SubSeq(w, e + 4, Len(w))

StandardKeys == {<<"S", "e", "r", "v", "e", "r">>, <<"C", "o", "n", "n", "e", "c", "t", "i", "o", "n">>, <<"C", "o", "n", "t", "e", "n", "t", "-", "L", "e", "n", "g", "t", "h">>, <<"C", "o", "n", "t", "e", "n", "t", "-", "T", "y", "p", "e">>}
\* the headers the caller added, as lines
ExtraLines(r) ==
    LET RECURSIVE Pick(_)
        Pick(h) == IF h = <<>> THEN <<>>
                   ELSE IF Head(h)[1] \in StandardKeys THEN Pick(Tail(h))
                   ELSE <<Encode(HeaderLine(Head(h)))>> \o Pick(Tail(h))
    IN  Pick(r.headers)

WellShaped(w, r) ==
    /\ HasBlankLine(w)
    /\ LET e == HeadEnd(w)
           lines == HeadLines(w, e)
           body == BodyPart(w, e)
           fixed == IF body # <<>> THEN 5 ELSE 3
       IN  /\ Len(lines) >= fixed
           /\ lines[1] = <<"H", "T", "T", "P", "/", "1", ".", "1", " ">> \o IntToStr(r.status_code) \o <<" ">>
                          \o Encode(r.status_message)
           /\ lines[2] = <<"S", "e", "r", "v", "e", "r", ":", " ", "S", "i", "m", "p", "l", "e", "P", "y", "t", "h", "o", "n", "W", "e", "b", "S", "e", "r", "v", "e", "r">>
           /\ lines[3] = <<"C", "o", "n", "n", "e", "c", "t", "i", "o", "n", ":", " ", "c", "l", "o", "s", "e">>
           /\ body # <<>> => /\ StartsWith(lines[4], <<"C", "o", "n", "t", "e", "n", "t", "-", "L", "e", "n", "g", "t", "h", ":", " ">>)
                             /\ StartsWith(lines[5], <<"C", "o", "n", "t", "e", "n", "t", "-", "T", "y", "p", "e", ":", " ">>)
           /\ \A k \in (fixed + 1)..Len(lines) :
                  /\ ~StartsWith(lines[k], <<"C", "o", "n", "t", "e", "n", "t", "-", "L", "e", "n", "g", "t", "h", ":", " ">>)
                  /\ ~StartsWith(lines[k], <<"C", "o", "n", "t", "e", "n", "t", "-", "T", "y", "p", "e", ":", " ">>)
           /\ [k \in 1..(Len(lines) - fixed) |-> lines[fixed + k]] = ExtraLines(r)
           /\ body = r.body

C15_ResponseShape ==
    \A c \in Conns :
        conn[c].pc \in {"send", "send_except"}
        => WellShaped(WireBytes(conn[c].resp), conn[c].resp)

\* the handler is about to send a file as a download: a body, the two
\* content headers and an extra header
C15_Witness ==
    \E c \in Conns :
        /\ conn[c].pc = "send"
        /\ conn[c].resp.status_code = 200
        /\ conn[c].resp.body = <<"Z">>
        /\ HasHeader(conn[c].resp, <<"C", "o", "n", "t", "e", "n", "t", "-", "D", "i", "s", "p", "o", "s", "i", "t", "i", "o", "n">>)
        /\ LET w == WireBytes(conn[c].resp)
           IN  /\ Len(HeadLines(w, HeadEnd(w))) = 6
               /\ BodyPart(w, HeadEnd(w)) = <<"Z">>

(***************************************************************************)
(* C16.  Every accepted connection gets a thread of its own that runs      *)
(* handle_client once, and the threads do not stand in each other's way:   *)
(* a step never changes another connection's state; while the loop has not *)
(* been interrupted the next connection can be accepted whatever the       *)
(* threads are doing; a thread that has not finished can take its next     *)
(* step whatever the others are doing; and with one thread held up for     *)
(* ever, every other accepted connection is still handled to the end and   *)
(* every connection is still accepted unless the loop is interrupted.      *)
(***************************************************************************)
Running(c) == conn[c].pc \notin {"idle", "done"}

C16_NothingWaits ==
    /\ (loop = "accepting" /\ \E c \in Pool : conn[c].pc = "idle")
       => ENABLED (\E c \in Pool : Accept(c))
    /\ \A c \in Pool : Running(c) => ENABLED Step(c)

C16_OwnStateOnly ==
    /\ \A c, d \in Pool : (c # d /\ conn'[c] # conn[c]) => conn'[d] = conn[d]
    /\ \A c \in Pool :
          \* one invocation: a thread is started on accept and only then,
          \* and handle_client does not start over
          /\ (conn[c].pc = "idle" /\ conn'[c].pc # "idle")
             => (conn'[c].pc = "recv" /\ loop = "accepting")
          /\ conn[c].pc # "idle" => conn'[c].pc # "idle"
          /\ conn[c].pc \notin {"idle", "recv"} => conn'[c].pc # "recv"
    /\ conn' # conn => (loop' = loop /\ fs' = fs)

C16_WorkersIndependent ==
    /\ []C16_NothingWaits
    /\ [][C16_OwnStateOnly]_vars
    /\ \A c \in Pool \ {HeldUp} :
          /\ Running(c) ~> (Done(c) /\ conn[c].closes = 1)
          /\ (conn[c].pc = "idle") ~> (conn[c].pc # "idle" \/ loop = "stopped")

\* the first connection's thread is still in recv; the second connection
\* was accepted after it, sent its response and closed its socket
C16_Witness ==
    /\ conn[HeldUp].pc = "recv"
    /\ \E c \in Pool \ {HeldUp} :
          /\ Done(c)
          /\ Len(conn[c].sends) = 1 /\ conn[c].sends[1].ok
          /\ conn[c].sends[1].resp.status_code = 200
          /\ conn[c].closes = 1

(***************************************************************************)
(* C17.  The statement: once the accept loop has been interrupted it stays *)
(* stopped and accepts no further connection, and a thread that was in     *)
(* flight at that moment still sends a response and closes its socket      *)
(* before it ends.  It fails: a thread in flight whose recv returns        *)
(* nothing ends without sending.                                           *)
(***************************************************************************)
C17_StaysStopped ==
    loop = "stopped"
    => /\ loop' = "stopped"
       /\ \A c \in Conns : conn[c].pc = "idle" => conn'[c].pc = "idle"

C17_EndsAnswered(c) ==
    (loop = "stopped" /\ ~Done(c) /\ conn'[c].pc = "done")
    => (conn'[c].sends # <<>> /\ conn'[c].closes = 1)

C17_InFlightStillAnswer ==
    [][C17_StaysStopped /\ \A c \in Conns : C17_EndsAnswered(c)]_vars

(***************************************************************************)
(* C18.  When recv and every sendall return or raise, every invocation of  *)
(* handle_client ends, with its socket closed once.  The handler only      *)
(* moves forward: every step takes it to a later point of the code, so     *)
(* nothing is repeated, and it is at recv once and never comes back to it. *)
(***************************************************************************)
Point(pc) ==
    CASE pc = "idle" -> 0
      [] pc = "recv" -> 1
      [] pc = "classify" -> 2
      [] pc = "read" -> 3
      [] pc = "send" -> 4
      [] pc = "send_except" -> 5
      [] pc = "close" -> 6
      [] pc = "done" -> 7

C18_MovesForward ==
    \A c \in One :
        /\ conn'[c] # conn[c] => Point(conn'[c].pc) > Point(conn[c].pc)
        /\ Handled(c) => conn'[c].pc # "recv"
        /\ conn'[c].closes \in {conn[c].closes, conn[c].closes + 1}
        /\ conn'[c].closes # conn[c].closes => conn'[c].pc = "done"

C18_HandlerTerminates ==
    /\ \A c \in One : Running(c) ~> (Done(c) /\ conn[c].closes = 1)
    /\ [][C18_MovesForward]_vars
    /\ [](\A c \in One : Done(c) => conn[c].closes = 1)

\* a handler that went all the way (recv, the filesystem calls, a sendall
\* that raised, the sendall of the except clause) has ended, its socket
\* closed
C18_Witness ==
    \E c \in One :
        /\ Done(c) /\ conn[c].closes = 1
        /\ conn[c].received /\ conn[c].fsops # <<>>
        /\ Len(conn[c].sends) = 2

(***************************************************************************)
(* C19.  The statement: when the path was classified as a file or as a     *)
(* directory and the read that follows fails because the filesystem was    *)
(* changed in between, the response is a 500 without any content of the    *)
(* file, it is the only response sent, and the socket is closed after it.  *)
(* It fails: when the directory is gone at os.listdir and the sendall of   *)
(* the 500 raises, the except clause sends a second response.              *)
(***************************************************************************)
\* the read of a path classified a moment ago has just failed
ReadLost(c) == conn[c].error \in {"open", "listdir"}

C19_LostReadAnswered(c) ==
    ReadLost(c)
    => /\ conn[c].resp.status_code = 500
       /\ conn[c].resp \in {InternalError, ListingError}
       /\ \A i \in DOMAIN conn'[c].sends :
             conn'[c].sends[i].resp = conn[c].resp
       \* one response: once it is sent the handler only closes the socket
       /\ Len(conn'[c].sends) <= 1
       /\ conn'[c].sends # <<>> => conn'[c].pc \in {"close", "done"}
       /\ Done(c)' => conn'[c].closes = 1

C19_LostReadIsOne500 ==
    [][\A c \in Conns : C19_LostReadAnswered(c)]_vars

=========================================================================
